---- MODULE Spec2Model ----
(***************************************************************************)
(* Model of api/upload-images.js: the serverless handler that parses a     *)
(* multipart request with Busboy, relays every file part to the Shopify    *)
(* files endpoint concurrently, and answers with an aggregate report.      *)
(* One behaviour is the life of one request.                               *)
(***************************************************************************)
EXTENDS Integers, Sequences, FiniteSets, TLC

(* Largest number of file parts carried by the incoming stream. *)
MaxFiles == 3

VARIABLES req, env, stream, pos, pc, bb, files, fetchCalls, upl, settled, sent

vars == <<req, env, stream, pos, pc, bb, files, fetchCalls, upl, settled, sent>>

----------------------------------------------------------------------------
(* Inputs *)

Methods == {"OPTIONS", "POST", "GET"}

(* process.env values: a missing variable reads as undefined. *)
Undefined == "undefined"
EnvValues == {Undefined, "", "set"}

(* req.headers as Busboy sees them: with a multipart Content-Type, or      *)
(* without one (the constructor then throws).                              *)
HeaderKinds == {"multipart", "missing"}

(* The k-th file part of the stream, named by its filename; pos counts the  *)
(* parts the parser has delivered.                                         *)
FileName(k) == ToString(k)

Streams == {[k \in 1..n |-> FileName(k)] : n \in 0..MaxFiles}

(* Statuses the platform answers with. *)
PlatformStatuses == {200, 500}

(* Shapes of a 2xx response body: the documented { file: {url,key,size} }, *)
(* a file descriptor without url and size, JSON without a file descriptor, *)
(* and a body that is not JSON.                                            *)
BodyShapes == {"full", "partial", "nofile", "invalid"}

----------------------------------------------------------------------------
(* Pure helpers of the handler *)

(* JavaScript truthiness of a string-or-undefined value. *)
Falsy(x) == x \in {Undefined, ""}

CredentialsMissingOnlyBoth(e) ==
    Falsy(e.SHOPIFY_STORE) /\ Falsy(e.SHOPIFY_ACCESS_TOKEN)

(* !shopifyStore || !shopifyAccessToken *)
CredentialsMissing(e) ==
    Falsy(e.SHOPIFY_STORE) \/ Falsy(e.SHOPIFY_ACCESS_TOKEN)

PushFileReplace(fs, name) == <<[filename |-> name]>>

(* files.push({ filename, buffer, contentType }) in file.on('end') *)
PushFile(fs, name) == Append(fs, [filename |-> name])

ResponseOkAlways(status) == TRUE

(* response.ok *)
ResponseOk(status) == status \in 200..299

Failure(msg) == [success |-> FALSE, error |-> msg]

(* The parsed JSON of a 2xx body, for the call that carried file f. *)
Json(shape, f) ==
    CASE shape = "full"    -> [file |-> [url |-> "cdn/" \o f, key |-> f, size |-> "1"]]
      [] shape = "partial" -> [file |-> [key |-> f]]
      [] shape = "nofile"  -> [errors |-> "none"]

(* Property read: a missing property reads as undefined. *)
Get(obj, field) == IF field \in DOMAIN obj THEN obj[field] ELSE Undefined

(* Lines 103-115: await response.json(), then build the success record;    *)
(* a rejected json() or a TypeError on result.file.url lands in the catch. *)
MapJson(shape, f) ==
    IF shape = "invalid"
    THEN Failure("Unexpected token in JSON")
    ELSE IF "file" \notin DOMAIN Json(shape, f)
    THEN Failure("Cannot read properties of undefined (reading 'url')")
    ELSE [success  |-> TRUE,
          url      |-> Get(Json(shape, f).file, "url"),
          filename |-> Get(Json(shape, f).file, "key"),
          size     |-> Get(Json(shape, f).file, "size")]

(* Lines 98-101 and 110-115: the error thrown for a non-ok response. *)
ApiError(status) ==
    Failure("Shopify API error: " \o ToString(status) \o " - body")

Pending(f) == [file |-> f, pc |-> "fetch", fetch |-> "pending", status |-> 0,
               shape |-> "none", value |-> <<>>]

PromiseAllRace(u, order) == Len(order) >= 1

(* Promise.all settles (fulfilled) once every mapped promise is fulfilled; *)
(* a mapped promise never rejects, its body being one try/catch.           *)
PromiseAllFulfilled(u, order) == \A i \in DOMAIN u : u[i].pc = "done"

RECURSIVE Values(_, _)
(* The values of the fulfilled promises among u[ix[1]], u[ix[2]], ... *)
Values(u, ix) ==
    IF ix = <<>> THEN <<>> ELSE u[Head(ix)].value \o Values(u, Tail(ix))

PromiseAllInCompletionOrder(u, order) == Values(u, order)

(* The value of Promise.all: the promises' values in input order. *)
PromiseAllValue(u, order) == Values(u, [i \in DOMAIN u |-> i])

FailedUploadsSucceeded(results) == SelectSeq(results, LAMBDA r : r.success)

(* results.filter(r => !r.success) *)
FailedUploads(results) == SelectSeq(results, LAMBDA r : ~r.success)

Resp(status, kind, body) == [status |-> status, kind |-> kind, body |-> body]

Partial(results) ==
    Resp(207, "partial", [message |-> "Some uploads failed",
                          results |-> results,
                          failedCount |-> Len(FailedUploads(results))])

AllOk(results) ==
    Resp(200, "success", [message |-> "All images uploaded successfully",
                          results |-> results,
                          count |-> Len(results)])

AggregateFallThrough(results) ==
    IF Len(FailedUploads(results)) > 0
    THEN <<Partial(results), AllOk(results)>>
    ELSE <<AllOk(results)>>

AggregateThreshold(results) ==
    IF Len(FailedUploads(results)) > 1
    THEN <<Partial(results)>>
    ELSE <<AllOk(results)>>

(* Lines 121-136: the responses the finish callback sends for results. *)
Aggregate(results) ==
    IF Len(FailedUploads(results)) > 0
    THEN <<Partial(results)>>
    ELSE <<AllOk(results)>>

----------------------------------------------------------------------------
(* Initial state: a request arrives. *)

Init ==
    /\ req \in [method : Methods, headers : HeaderKinds]
    /\ env \in [SHOPIFY_STORE : EnvValues, SHOPIFY_ACCESS_TOKEN : EnvValues]
    /\ stream \in Streams
    /\ pos = 0
    /\ pc = "start"
    /\ bb = "none"
    /\ files = <<>>
    /\ fetchCalls = <<>>
    /\ upl = <<>>
    /\ settled = <<>>
    /\ sent = <<>>

----------------------------------------------------------------------------
(* The handler's synchronous part *)

HandlerOptions ==
    /\ pc = "start"
    /\ req.method = "OPTIONS"
    /\ sent' = Append(sent, Resp(200, "preflight", [ended |-> TRUE]))
    /\ pc' = "returned"
    /\ UNCHANGED <<req, env, stream, pos, bb, files, fetchCalls, upl, settled>>

HandlerMethodNotAllowed ==
    /\ pc = "start"
    /\ req.method # "OPTIONS"
    /\ req.method # "POST"
    /\ sent' = Append(sent, Resp(405, "method", [error |-> "Method not allowed"]))
    /\ pc' = "returned"
    /\ UNCHANGED <<req, env, stream, pos, bb, files, fetchCalls, upl, settled>>

HandlerNoCredentials ==
    /\ pc = "start"
    /\ req.method = "POST"
    /\ CredentialsMissing(env)
    /\ sent' = Append(sent, Resp(500, "config",
                        [error |-> "Shopify credentials not configured"]))
    /\ pc' = "returned"
    /\ UNCHANGED <<req, env, stream, pos, bb, files, fetchCalls, upl, settled>>

(* Busboy({ headers }) throws inside the try: the outer catch answers. *)
HandlerBusboyThrows ==
    /\ pc = "start"
    /\ req.method = "POST"
    /\ ~CredentialsMissing(env)
    /\ req.headers = "missing"
    /\ sent' = Append(sent, Resp(500, "internal",
                        [error |-> "Internal server error",
                         message |-> "Missing Content-Type"]))
    /\ pc' = "returned"
    /\ UNCHANGED <<req, env, stream, pos, bb, files, fetchCalls, upl, settled>>

(* Handlers registered, req.pipe(bb): the handler returns, parsing begins. *)
HandlerPipe ==
    /\ pc = "start"
    /\ req.method = "POST"
    /\ ~CredentialsMissing(env)
    /\ req.headers = "multipart"
    /\ bb' = "open"
    /\ pc' = "piped"
    /\ UNCHANGED <<req, env, stream, pos, files, fetchCalls, upl, settled, sent>>

----------------------------------------------------------------------------
(* Parser events *)

(* file 'end' of the next part of the stream *)
FileEnd ==
    /\ bb = "open"
    /\ pos < Len(stream)
    /\ files' = PushFile(files, stream[pos + 1])
    /\ pos' = pos + 1
    /\ UNCHANGED <<req, env, stream, pc, bb, fetchCalls, upl, settled, sent>>

(* bb 'finish' with no file collected *)
FinishNoFiles ==
    /\ bb = "open"
    /\ pos = Len(stream)
    /\ Len(files) = 0
    /\ bb' = "finished"
    /\ sent' = Append(sent, Resp(400, "nofiles", [error |-> "No files uploaded"]))
    /\ UNCHANGED <<req, env, stream, pos, pc, files, fetchCalls, upl, settled>>

(* bb 'finish' with files: files.map starts every upload up to its fetch. *)
FinishUpload ==
    /\ bb = "open"
    /\ pos = Len(stream)
    /\ Len(files) # 0
    /\ bb' = "finished"
    /\ upl' = [i \in 1..Len(files) |-> Pending(files[i].filename)]
    /\ fetchCalls' = fetchCalls \o [i \in 1..Len(files) |-> files[i].filename]
    /\ pc' = "awaitAll"
    /\ UNCHANGED <<req, env, stream, pos, files, settled, sent>>

(* bb 'error': the stream is malformed; a Writable emits no 'finish' after *)
(* 'error' and no 'error' after 'finish'.                                  *)
BusboyError ==
    /\ bb = "open"
    /\ bb' = "errored"
    /\ sent' = Append(sent, Resp(400, "parse",
                        [error |-> "Error parsing form data",
                         message |-> "Unexpected end of form"]))
    /\ UNCHANGED <<req, env, stream, pos, pc, files, fetchCalls, upl, settled>>

----------------------------------------------------------------------------
(* One upload: lines 68-116 *)

Settle(i, u) ==
    /\ upl' = [upl EXCEPT ![i] = u]
    /\ settled' = IF u.pc = "done" THEN Append(settled, i) ELSE settled
    /\ UNCHANGED <<req, env, stream, pos, pc, bb, files, fetchCalls, sent>>

(* fetch rejects: network-level exception, caught at line 110 *)
FetchRejects(i) ==
    /\ upl[i].pc = "fetch"
    /\ Settle(i, [upl[i] EXCEPT !.pc = "done", !.fetch = "rejected",
                                !.value = <<Failure("fetch failed")>>])

(* fetch resolves with a response of some status *)
FetchResolves(i, status) ==
    /\ upl[i].pc = "fetch"
    /\ Settle(i, [upl[i] EXCEPT !.pc = IF ResponseOk(status) THEN "json" ELSE "text",
                                !.fetch = "responded", !.status = status])

(* await response.text() settles; either way the catch builds a failure *)
TextSettles(i, readOk) ==
    /\ upl[i].pc = "text"
    /\ Settle(i, [upl[i] EXCEPT !.pc = "done",
                    !.value = <<IF readOk THEN ApiError(upl[i].status)
                                ELSE Failure("terminated")>>])

(* await response.json() settles and the result record is built *)
JsonSettles(i, shape) ==
    /\ upl[i].pc = "json"
    /\ Settle(i, [upl[i] EXCEPT !.pc = "done", !.shape = shape,
                                !.value = <<MapJson(shape, upl[i].file)>>])

(* The continuation of await Promise.all(uploadPromises): lines 119-136 *)
Respond ==
    /\ pc = "awaitAll"
    /\ PromiseAllFulfilled(upl, settled)
    /\ sent' = sent \o Aggregate(PromiseAllValue(upl, settled))
    /\ pc' = "responded"
    /\ UNCHANGED <<req, env, stream, pos, bb, files, fetchCalls, upl, settled>>

Next ==
    \/ HandlerOptions
    \/ HandlerMethodNotAllowed
    \/ HandlerNoCredentials
    \/ HandlerBusboyThrows
    \/ HandlerPipe
    \/ FileEnd
    \/ FinishNoFiles
    \/ FinishUpload
    \/ BusboyError
    \/ \E i \in DOMAIN upl : FetchRejects(i)
    \/ \E i \in DOMAIN upl : \E s \in PlatformStatuses : FetchResolves(i, s)
    \/ \E i \in DOMAIN upl : \E r \in BOOLEAN : TextSettles(i, r)
    \/ \E i \in DOMAIN upl : \E sh \in BodyShapes : JsonSettles(i, sh)
    \/ Respond

Spec == Init /\ [][Next]_vars

----------------------------------------------------------------------------
(* Properties *)

(* Positions in sent of the aggregate (200 / 207) responses. *)
AggregateSent == {k \in DOMAIN sent : sent[k].kind \in {"partial", "success"}}

(* The result record upload i produced. *)
ResultOf(i) == upl[i].value[1]

(* Uploads whose outbound call failed: fetch rejected or non-2xx status. *)
FailingCalls ==
    {i \in DOMAIN upl : upl[i].fetch = "rejected"
                        \/ (upl[i].fetch = "responded" /\ ~(upl[i].status \in 200..299))}

(* Uploads answered 2xx whose body is not JSON or has no file object. *)
UnusableBodies == {i \in DOMAIN upl : upl[i].shape \in {"nofile", "invalid"}}

FailureRecords == {i \in DOMAIN upl : upl[i].pc = "done" /\ ~ResultOf(i).success}

SuccessRecords == {i \in DOMAIN upl : upl[i].pc = "done" /\ ResultOf(i).success}

AllUploadsDone == upl # <<>> /\ \A i \in DOMAIN upl : upl[i].pc = "done"

(* C1: a POST that reaches the upload phase with n >= 1 file parts is      *)
(* answered with a results array of exactly n entries, one per file of the *)
(* stream: each file is sent in exactly one outbound call, none dropped,   *)
(* none twice.                                                             *)
C1_OneResultPerFile ==
    /\ pc = "responded" => AggregateSent # {}
    /\ \A k \in AggregateSent :
        /\ Len(stream) >= 1
        /\ Len(sent[k].body.results) = Len(stream)
        /\ fetchCalls = stream
        /\ \A i \in 1..Len(stream) : files[i].filename = stream[i]

C1_Witness ==
    /\ AggregateSent # {}
    /\ Len(stream) >= 2
    /\ FailureRecords # {}
    /\ SuccessRecords # {}
    /\ Len(sent[1].body.results) = Len(stream)

(* C2: when at least one upload failed, the response is 207, failedCount   *)
(* is the number of success:false entries of results, and results holds    *)
(* every upload's record.                                                  *)
C2_PartialFailure ==
    (pc = "responded" /\ FailureRecords # {}) =>
        /\ Len(sent) >= 1
        /\ sent[1].status = 207
        /\ sent[1].body.failedCount =
             Cardinality({i \in DOMAIN sent[1].body.results :
                             ~sent[1].body.results[i].success})
        /\ sent[1].body.failedCount = Cardinality(FailureRecords)
        /\ Len(sent[1].body.results) = Len(upl)
        /\ \A i \in DOMAIN upl : sent[1].body.results[i] = ResultOf(i)

C2_Witness ==
    /\ pc = "responded"
    /\ Cardinality(FailureRecords) >= 2
    /\ SuccessRecords # {}
    /\ sent[1].status = 207
    /\ sent[1].body.failedCount = Cardinality(FailureRecords)

(* C3: when every upload succeeded the response is 200 with count equal to *)
(* the number of results and no failedCount field; a POST is never         *)
(* answered 200 while some result is a failure.                            *)
C3_AllSucceeded ==
    /\ (pc = "responded" /\ FailureRecords = {}) =>
          /\ Len(sent) >= 1
          /\ sent[1].status = 200
          /\ sent[1].body.count = Len(sent[1].body.results)
          /\ sent[1].body.count = Len(upl)
          /\ "failedCount" \notin DOMAIN sent[1].body
    /\ \A k \in DOMAIN sent :
          (req.method = "POST" /\ sent[k].status = 200) =>
              /\ FailureRecords = {}
              /\ \A i \in DOMAIN sent[k].body.results :
                     sent[k].body.results[i].success

C3_Witness ==
    /\ pc = "responded"
    /\ FailureRecords = {}
    /\ Len(upl) >= 2
    /\ sent[1].status = 200
    /\ sent[1].body.count = Len(upl)

(* C4: results[i] is the outcome of uploading files[i], whatever the order *)
(* in which the outbound calls complete.                                   *)
C4_OrderPreserved ==
    \A k \in AggregateSent :
        /\ Len(sent[k].body.results) = Len(files)
        /\ \A i \in DOMAIN files :
              /\ upl[i].file = files[i].filename
              /\ sent[k].body.results[i] = ResultOf(i)
              /\ upl[i].shape = "full" =>
                    sent[k].body.results[i].filename = files[i].filename

(* The calls completed in an order other than the files' order, with       *)
(* different outcomes.                                                     *)
C4_Witness ==
    /\ AggregateSent # {}
    /\ Len(settled) >= 2
    /\ settled[1] > settled[2]
    /\ ResultOf(settled[1]) # ResultOf(settled[2])

(* C5 as stated: k failing outbound calls (non-2xx status or network       *)
(* exception) among n images yield exactly k failure records and n-k       *)
(* success records.                                                        *)
C5_ExactlyKFailures ==
    AllUploadsDone =>
        /\ Cardinality(FailureRecords) = Cardinality(FailingCalls)
        /\ Cardinality(SuccessRecords) = Len(upl) - Cardinality(FailingCalls)

(* C5 amended: every upload yields exactly one record and no exception     *)
(* escapes it; a failing call on image i makes record i a failure and      *)
(* leaves the records of its siblings as they are; with k failing calls    *)
(* and m 2xx answers whose body is not JSON or has no file object there    *)
(* are exactly k+m failure records and n-k-m success records.              *)
C5_FailuresIsolated ==
    /\ [](\A i \in DOMAIN upl :
            /\ Len(upl[i].value) = (IF upl[i].pc = "done" THEN 1 ELSE 0)
            /\ (i \in FailingCalls /\ upl[i].pc = "done") => i \in FailureRecords)
    /\ [](\A k \in DOMAIN sent : sent[k].kind = "internal" => upl = <<>>)
    /\ [](AllUploadsDone =>
            /\ Cardinality(FailureRecords) =
                   Cardinality(FailingCalls) + Cardinality(UnusableBodies)
            /\ Cardinality(SuccessRecords) =
                   Len(upl) - Cardinality(FailingCalls) - Cardinality(UnusableBodies))
    /\ [][\A i \in DOMAIN upl : upl[i].pc = "done" => upl'[i] = upl[i]]_vars

C5_Witness ==
    /\ AllUploadsDone
    /\ Len(upl) >= 3
    /\ Cardinality(FailingCalls) = 1
    /\ Cardinality(FailureRecords) = 1
    /\ Cardinality(SuccessRecords) = Len(upl) - 1
    /\ pc = "responded"
    /\ sent[1].status = 207

(* C6: the aggregate response is sent only after every upload of the       *)
(* request has completed with a result; while any upload is pending no     *)
(* response has been sent, and every call issued runs to completion        *)
(* untouched by its siblings' failures.                                    *)
C6_ResponseAfterAll ==
    /\ \A k \in AggregateSent :
          /\ Len(upl) = Len(files)
          /\ \A i \in DOMAIN upl : upl[i].pc = "done" /\ Len(upl[i].value) = 1
    /\ (\E i \in DOMAIN upl : upl[i].pc # "done") => sent = <<>>

(* One upload has failed, another is still in flight, nothing sent yet. *)
C6_Witness ==
    /\ FailureRecords # {}
    /\ \E i \in DOMAIN upl : upl[i].pc # "done"
    /\ sent = <<>>
    /\ pc = "awaitAll"

(* C7: a POST with a missing store or token is answered 500, a POST whose  *)
(* stream ends with zero file parts is answered 400, and in both cases no  *)
(* outbound call has been issued.                                          *)
C7_AbortBeforeNetwork ==
    /\ (pc # "start" /\ req.method = "POST"
        /\ (Falsy(env.SHOPIFY_STORE) \/ Falsy(env.SHOPIFY_ACCESS_TOKEN))) =>
          /\ Len(sent) = 1
          /\ sent[1].status = 500
          /\ sent[1].kind = "config"
          /\ fetchCalls = <<>>
          /\ bb = "none"
    /\ (bb = "finished" /\ Len(stream) = 0) =>
          /\ Len(sent) = 1
          /\ sent[1].status = 400
          /\ sent[1].kind = "nofiles"
          /\ fetchCalls = <<>>
    /\ \A k \in DOMAIN sent :
          sent[k].kind \in {"config", "nofiles"} => (fetchCalls = <<>> /\ upl = <<>>)

C7_WitnessConfig ==
    /\ req.method = "POST"
    /\ ~Falsy(env.SHOPIFY_STORE)
    /\ Falsy(env.SHOPIFY_ACCESS_TOKEN)
    /\ Len(stream) >= 1
    /\ Len(sent) = 1
    /\ sent[1].status = 500

C7_WitnessNoFiles ==
    /\ bb = "finished"
    /\ Len(stream) = 0
    /\ Len(sent) = 1
    /\ sent[1].status = 400
    /\ fetchCalls = <<>>

C7_Witness == C7_WitnessNoFiles

(* C8: whenever parsing the multipart request fails, at parser set-up or   *)
(* while the stream is consumed, the request is answered 400.              *)
C8_ParseFailureIs400 ==
    /\ bb = "errored" => (Len(sent) = 1 /\ sent[1].status = 400)
    /\ (pc = "returned" /\ req.method = "POST"
        /\ ~Falsy(env.SHOPIFY_STORE) /\ ~Falsy(env.SHOPIFY_ACCESS_TOKEN)
        /\ req.headers = "missing") =>
          (Len(sent) = 1 /\ sent[1].status = 400)

(* C9: a 2xx answer whose JSON lacks the file descriptor or one of url,    *)
(* key, size gives a failure record with message "malformed platform       *)
(* response", never a success record with missing fields.                  *)
C9_MalformedPlatformResponse ==
    \A i \in DOMAIN upl :
        (upl[i].pc = "done" /\ upl[i].shape \in {"partial", "nofile"}) =>
            ResultOf(i) = [success |-> FALSE, error |-> "malformed platform response"]

(* C10: at most one response is sent per request. *)
C10_AtMostOneResponse ==
    /\ Len(sent) <= 1
    /\ pc \in {"returned", "responded"} => Len(sent) = 1
    /\ (bb \in {"finished", "errored"} /\ pc # "awaitAll") => Len(sent) = 1

(* Files were collected, then the parser errored: answered once, with 400. *)
C10_WitnessError ==
    /\ bb = "errored"
    /\ Len(files) >= 1
    /\ Len(sent) = 1

C10_Witness ==
    /\ pc = "responded"
    /\ FailureRecords # {}
    /\ Len(sent) = 1

====
